---------------------------- MODULE Spec2Model ----------------------------
(***************************************************************************)
(* A model of the e-commerce analytics code: the Sales Assembler           *)
(* (src/data_loader.py), the Metrics Engine (src/business_metrics.py) and  *)
(* the part of the dashboard that drives them (src/dashboard.py).          *)
(*                                                                         *)
(* Tables are sequences of rows, rows are records keyed by column name.    *)
(* Floating-point values are modelled as exact rationals extended with     *)
(* NaN and the two infinities (rounding is abstracted away); a nullable    *)
(* cell is a record that says whether it is missing.                       *)
(***************************************************************************)
EXTENDS Integers, Sequences, FiniteSets, TLC

VARIABLES
    pc,           \* position of the session in the pipeline
    orders,       \* loaded table: orders
    customers,    \* loaded table: customers
    order_items,  \* loaded table: order items
    products,     \* loaded table: product catalog
    reviews,      \* loaded table: reviews
    sales,        \* build_sales_data's result
    sales_del,    \* the delivered sales table as load_data refines it
    metrics,      \* the values the Metrics Engine returned
    call,         \* the scalar call in flight: function, arguments, result
    heap,         \* table objects by identity (object id -> rows)
    calls,        \* the assembler calls made on heap objects: <<input, output>>
    sel_year,     \* the dashboard's year selector
    sel_month,    \* the dashboard's month selector (missing: "All")
    sales_curr,   \* the sales records of the selected period
    sales_comp,   \* the sales records of the same period a year earlier
    kpis          \* the dashboard's KPI values, growths and trend badges

\* the dashboard's period selection and what it computes from it
view == <<sel_year, sel_month, sales_curr, sales_comp, kpis>>

vars == <<pc, orders, customers, order_items, products, reviews, sales,
          sales_del, metrics, call, heap, calls, view>>

-----------------------------------------------------------------------------
(* Bounds of the model.                                                    *)

MaxAmount == 6
MaxDays == 10
MaxItems == 3
MaxPrice == 2
MaxObjects == 4
MaxOrders == 2

-----------------------------------------------------------------------------
(* Numbers: float64 as exact extended rationals.                           *)

Abs(x) == IF x < 0 THEN -x ELSE x

Sign(x) == IF x < 0 THEN -1 ELSE IF x > 0 THEN 1 ELSE 0

RECURSIVE GCD(_, _)
GCD(a, b) == IF b = 0 THEN a ELSE GCD(b, a % b)

NaN == [kind |-> "nan", n |-> 0, d |-> 1]

Inf(s) == [kind |-> "inf", n |-> s, d |-> 0]

\* The rational n/d (d # 0) in lowest terms with a positive denominator.
Rat(n, d) ==
    LET g == GCD(Abs(n), Abs(d))
    IN  [kind |-> "num", n |-> Sign(d) * (n \div g), d |-> Abs(d) \div g]

Num(i) == Rat(i, 1)

IsNaN(x) == x.kind = "nan"

\* float subtraction a - b
FSub(a, b) ==
    IF IsNaN(a) \/ IsNaN(b) THEN NaN
    ELSE IF a.kind = "inf"
         THEN IF b.kind = "inf" /\ b.n = a.n THEN NaN ELSE a
    ELSE IF b.kind = "inf" THEN Inf(-b.n)
    ELSE Rat(a.n * b.d - b.n * a.d, a.d * b.d)

\* float division a / b: a zero divisor gives an infinity or NaN, not an error
FDiv(a, b) ==
    IF IsNaN(a) \/ IsNaN(b) THEN NaN
    ELSE IF a.kind = "inf"
         THEN IF b.kind = "inf" THEN NaN
              ELSE Inf(a.n * (IF b.n < 0 THEN -1 ELSE 1))
    ELSE IF b.kind = "inf" THEN Num(0)
    ELSE IF b.n = 0
         THEN IF a.n = 0 THEN NaN ELSE Inf(Sign(a.n))
    ELSE Rat(a.n * b.d, a.d * b.n)

\* float addition a + b
FAdd(a, b) ==
    IF IsNaN(a) \/ IsNaN(b) THEN NaN
    ELSE IF a.kind = "inf"
         THEN IF b.kind = "inf" /\ b.n # a.n THEN NaN ELSE a
    ELSE IF b.kind = "inf" THEN b
    ELSE Rat(a.n * b.d + b.n * a.d, a.d * b.d)

\* float multiplication by a positive whole number: growth * 100
FScale(a, k) == IF a.kind = "num" THEN Rat(a.n * k, a.d) ELSE a

\* a >= 0; a comparison with NaN is False
FNonNegative(a) == ~IsNaN(a) /\ a.n >= 0

-----------------------------------------------------------------------------
(* business_metrics.calculate_revenue_growth                               *)

\* a plausible slip: report "no growth" when there is nothing to compare with
growth_zero_when_no_previous(current_revenue, previous_revenue) ==
    IF previous_revenue.kind = "num" /\ previous_revenue.n = 0
    THEN Num(0)
    ELSE FDiv(FSub(current_revenue, previous_revenue), previous_revenue)

calculate_revenue_growth(current_revenue, previous_revenue) ==
    IF previous_revenue.kind = "num" /\ previous_revenue.n = 0
    THEN NaN
    ELSE FDiv(FSub(current_revenue, previous_revenue), previous_revenue)

-----------------------------------------------------------------------------
(* data_loader.categorize_delivery_speed                                   *)

\* a nullable number: a float cell that may hold NaN
NA == [na |-> TRUE, v |-> 0]

Val(x) == [na |-> FALSE, v |-> x]

\* every comparison with NaN is False, so a missing day count falls through
\* both tests to the last return
categorize_off_by_one(d) ==
    IF ~d.na /\ d.v < 3 THEN "1-3 days"
    ELSE IF ~d.na /\ d.v <= 7 THEN "4-7 days"
    ELSE "8+ days"

categorize_delivery_speed(d) ==
    IF ~d.na /\ d.v <= 3 THEN "1-3 days"
    ELSE IF ~d.na /\ d.v <= 7 THEN "4-7 days"
    ELSE "8+ days"

-----------------------------------------------------------------------------
(* Tables.  A table is a sequence of rows; a row is a record keyed by      *)
(* column name.                                                            *)

\* the row numbers of a table
Rows(T) == 1..Len(T)

\* df[[cols]]
Project(T, cols) == [i \in 1..Len(T) |-> [c \in cols |-> T[i][c]]]

\* one row with a column added or replaced
WithCol(row, name, value) ==
    [c \in DOMAIN row \cup {name} |-> IF c = name THEN value ELSE row[c]]

\* the row of a merge: the columns of both sides, the key taken once
JoinRow(l, r) ==
    [c \in DOMAIN l \cup DOMAIN r |-> IF c \in DOMAIN l THEN l[c] ELSE r[c]]

\* a row of missing values over the given columns
MissingRow(cols) == [c \in cols |-> [na |-> TRUE, v |-> 0]]

\* the rows of R that agree with row l on every column of `on`
Matching(l, R, on) == SelectSeq(R, LAMBDA r : \A c \in on : r[c] = l[c])

\* a left join: an unmatched left row is kept, its right columns missing
RECURSIVE left_merge(_, _, _, _)
left_merge(L, R, on, rcols) ==
    IF L = <<>> THEN <<>>
    ELSE LET m == Matching(Head(L), R, on)
         IN  (IF m = <<>>
              THEN <<JoinRow(Head(L), MissingRow(rcols))>>
              ELSE [j \in 1..Len(m) |-> JoinRow(Head(L), m[j])])
             \o left_merge(Tail(L), R, on, rcols)

\* pd.merge(left, right, on=...), how="inner": every pair of rows that agree
\* on the key, in the order of the left rows; unmatched rows of either side
\* are dropped
RECURSIVE pd_merge(_, _, _, _)
pd_merge(L, R, on, rcols) ==
    IF L = <<>> THEN <<>>
    ELSE LET m == Matching(Head(L), R, on)
         IN  [j \in 1..Len(m) |-> JoinRow(Head(L), m[j])]
             \o pd_merge(Tail(L), R, on, rcols)

\* DataFrame.drop_duplicates(): the first occurrence of every distinct row
RECURSIVE drop_duplicates(_)
drop_duplicates(T) ==
    IF T = <<>> THEN <<>>
    ELSE LET init == drop_duplicates(SubSeq(T, 1, Len(T) - 1))
             last == T[Len(T)]
         IN  IF \E i \in 1..Len(init) : init[i] = last
             THEN init
             ELSE Append(init, last)

RECURSIVE SumSeq(_)
SumSeq(s) == IF s = <<>> THEN 0 ELSE Head(s) + SumSeq(Tail(s))

\* the elements of a finite set of integers in ascending order
RECURSIVE SortedSeq(_)
SortedSeq(S) ==
    IF S = {} THEN <<>>
    ELSE LET m == CHOOSE x \in S : \A y \in S : x <= y
         IN  <<m>> \o SortedSeq(S \ {m})

\* the values of a column, in row order
Column(T, col) == [i \in 1..Len(T) |-> T[i][col]]

\* Series.mean(): the mean of the values that are not missing, NaN if none
series_mean(cells) ==
    LET present == SelectSeq(cells, LAMBDA x : ~x.na)
    IN  IF present = <<>> THEN NaN
        ELSE Rat(SumSeq([i \in 1..Len(present) |-> present[i].v]),
                 Len(present))

-----------------------------------------------------------------------------
(* Timestamps are hours since 2023-01-01 00:00; a timestamp cell may be    *)
(* NaT.  Calendar lists the months the model's timestamps fall in.         *)

Calendar ==
    { [year |-> 2022, month |-> 12, first |-> -744, last |-> -1],
      [year |-> 2022, month |-> 1, first |-> -8760, last |-> -8017],
      [year |-> 2022, month |-> 2, first |-> -8016, last |-> -7345],
      [year |-> 2023, month |-> 1, first |-> 0, last |-> 743],
      [year |-> 2023, month |-> 2, first |-> 744, last |-> 1415],
      [year |-> 2023, month |-> 3, first |-> 1416, last |-> 2159] }

MonthEntry(t) == CHOOSE e \in Calendar : e.first <= t /\ t <= e.last

\* Series.dt.month and Series.dt.year: missing for NaT
dt_month(ts) == IF ts.na THEN NA ELSE Val(MonthEntry(ts.v).month)

dt_year(ts) == IF ts.na THEN NA ELSE Val(MonthEntry(ts.v).year)

\* datetime subtraction: a Timedelta in hours, NaT if either side is NaT
ts_sub(a, b) == IF a.na \/ b.na THEN NA ELSE Val(a.v - b.v)

\* Series.dt.days: the days component of a Timedelta, which is the floor of
\* the duration in days (also for a negative duration); NaN for NaT
dt_days(td) == IF td.na THEN NA ELSE Val(td.v \div 24)

-----------------------------------------------------------------------------
(* data_loader: the Sales Assembler                                        *)

ItemCols == {"order_id", "order_item_id", "product_id", "price"}

OrderCols == {"order_id", "order_status", "order_purchase_timestamp",
              "order_delivered_customer_date"}

add_month_year(T) ==
    [i \in 1..Len(T) |->
        WithCol(WithCol(T[i], "month", dt_month(T[i].order_purchase_timestamp)),
                "year", dt_year(T[i].order_purchase_timestamp))]

\* a plausible slip: how="left", which keeps the items that have no order
build_sales_data_left_join(orders_, order_items_) ==
    add_month_year(
        left_merge(Project(order_items_, ItemCols), Project(orders_, OrderCols),
                   {"order_id"},
                   {"order_status", "order_purchase_timestamp",
                    "order_delivered_customer_date"}))

\* pd.to_datetime on the two columns load_orders has already parsed leaves
\* them as they are
build_sales_data(orders_, order_items_) ==
    add_month_year(
        pd_merge(Project(order_items_, ItemCols), Project(orders_, OrderCols),
                 {"order_id"},
                 {"order_status", "order_purchase_timestamp",
                  "order_delivered_customer_date"}))

filter_delivered_orders(sales_data) ==
    SelectSeq(sales_data, LAMBDA r : r.order_status = "delivered")

\* a plausible slip: the month test replaces the year test
filter_by_period_month_only(sales_data, year, month) ==
    SelectSeq(sales_data,
              LAMBDA r : IF month.na
                         THEN ~r.year.na /\ r.year.v = year
                         ELSE ~r.month.na /\ r.month.v = month.v)

\* month is a nullable argument: NA stands for month=None.  A comparison
\* with a missing year or month is False.
filter_by_period(sales_data, year, month) ==
    SelectSeq(sales_data,
              LAMBDA r : /\ ~r.year.na /\ r.year.v = year
                         /\ month.na \/ (~r.month.na /\ r.month.v = month.v))

\* a plausible slip: a missing delivery date counted as no delay at all
add_delivery_speed_fill_zero(sales_data) ==
    [i \in 1..Len(sales_data) |->
        WithCol(sales_data[i], "delivery_speed_days",
                IF sales_data[i].order_delivered_customer_date.na
                THEN Val(0)
                ELSE dt_days(ts_sub(sales_data[i].order_delivered_customer_date,
                                    sales_data[i].order_purchase_timestamp)))]

add_delivery_speed(sales_data) ==
    [i \in 1..Len(sales_data) |->
        WithCol(sales_data[i], "delivery_speed_days",
                dt_days(ts_sub(sales_data[i].order_delivered_customer_date,
                               sales_data[i].order_purchase_timestamp)))]

\* load_data: sales_del["delivery_time"] =
\*     sales_del["delivery_speed_days"].apply(categorize_delivery_speed)
\* apply calls the function on every cell, the missing ones included
apply_categorize(sales_data) ==
    [i \in 1..Len(sales_data) |->
        WithCol(sales_data[i], "delivery_time",
                categorize_delivery_speed(sales_data[i].delivery_speed_days))]

-----------------------------------------------------------------------------
(* business_metrics: the Metrics Engine                                    *)

\* Series.sum() of the price column
calculate_total_revenue(sales_data) == SumSeq(Column(sales_data, "price"))

\* the rows whose (nullable) column holds the value k
RowsWhere(T, col, k) == SelectSeq(T, LAMBDA r : ~r[col].na /\ r[col].v = k)

\* groupby("month")["price"].sum(): one entry per month present, ascending
\* by month; a row whose month is missing belongs to no group
calculate_monthly_revenue(sales_data) ==
    LET keys == SortedSeq({sales_data[i].month.v :
                             i \in {j \in 1..Len(sales_data) :
                                        ~sales_data[j].month.na}})
    IN  [i \in 1..Len(keys) |->
            [month |-> keys[i],
             price |-> calculate_total_revenue(
                           RowsWhere(sales_data, "month", keys[i]))]]

\* a plausible slip: the change taken relative to the current month
pct_change_of_current(series) ==
    [i \in 1..Len(series) |->
        [month |-> series[i].month,
         price |-> IF i = 1 THEN NaN
                   ELSE FSub(Num(1), FDiv(Num(series[i - 1].price),
                                          Num(series[i].price)))]]

\* Series.pct_change(): value / previous value - 1, NaN for the first entry
pct_change(series) ==
    [i \in 1..Len(series) |->
        [month |-> series[i].month,
         price |-> IF i = 1 THEN NaN
                   ELSE FSub(FDiv(Num(series[i].price),
                                  Num(series[i - 1].price)), Num(1))]]

calculate_monthly_growth(sales_data) ==
    pct_change(calculate_monthly_revenue(sales_data))

\* a plausible slip: the mean of the item prices
average_item_value(sales_data) ==
    IF sales_data = <<>> THEN NaN
    ELSE Rat(calculate_total_revenue(sales_data), Len(sales_data))

\* groupby("order_id")["price"].sum().mean()
calculate_average_order_value(sales_data) ==
    LET ids == SortedSeq({sales_data[i].order_id : i \in 1..Len(sales_data)})
        per_order == [i \in 1..Len(ids) |->
                        calculate_total_revenue(
                            SelectSeq(sales_data,
                                      LAMBDA r : r.order_id = ids[i]))]
    IN  IF ids = <<>> THEN NaN
        ELSE Rat(SumSeq(per_order), Len(per_order))

\* a plausible slip: the records counted, not the distinct orders
order_count_of_rows(sales_data) == Len(sales_data)

\* Series.nunique() of order_id
calculate_order_count(sales_data) ==
    Cardinality({sales_data[i].order_id : i \in 1..Len(sales_data)})

\* the merge of calculate_category_revenue: catalog rows joined to the
\* records on product_id
category_merge(sales_data, products_) ==
    pd_merge(Project(products_, {"product_id", "product_category_name"}),
             Project(sales_data, {"product_id", "price"}),
             {"product_id"}, {"price"})

\* groupby("product_category_name")["price"].sum(): one entry per category
\* name; groupby drops the rows whose key is missing
category_sums(merged) ==
    { [product_category_name |-> k,
       price |-> calculate_total_revenue(
                     RowsWhere(merged, "product_category_name", k))] :
      k \in {merged[i].product_category_name.v :
               i \in {j \in 1..Len(merged) :
                          ~merged[j].product_category_name.na}} }

\* the orders in which sort_values may leave a set of entries: every
\* arrangement that is sorted by price; no order is promised among equal
\* values
Arrangements(S, ascending) ==
    { s \in [1..Cardinality(S) -> S] :
        /\ \A i, j \in 1..Cardinality(S) : i # j => s[i] # s[j]
        /\ \A i \in 1..(Cardinality(S) - 1) :
              IF ascending THEN s[i].price <= s[i + 1].price
                           ELSE s[i].price >= s[i + 1].price }

\* a plausible slip: ascending=True
category_revenue_ascending(sales_data, products_) ==
    Arrangements(category_sums(category_merge(sales_data, products_)), TRUE)

\* the results calculate_category_revenue may return (a set: ties)
calculate_category_revenue(sales_data, products_) ==
    Arrangements(category_sums(category_merge(sales_data, products_)), FALSE)

\* the two merges of calculate_state_revenue: the records joined to the
\* orders on order_id, then to the customers on customer_id
state_merge(sales_data, orders_, customers_) ==
    pd_merge(pd_merge(Project(sales_data, {"order_id", "price"}),
                      Project(orders_, {"order_id", "customer_id"}),
                      {"order_id"}, {"customer_id"}),
             Project(customers_, {"customer_id", "customer_state"}),
             {"customer_id"}, {"customer_state"})

\* groupby("customer_state")["price"].sum(): one entry per state
state_sums(merged) ==
    { [customer_state |-> k,
       price |-> calculate_total_revenue(
                     SelectSeq(merged, LAMBDA r : r.customer_state = k))] :
      k \in {merged[i].customer_state : i \in 1..Len(merged)} }

\* a plausible slip: the orders joined to the customers on order_id
state_revenue_by_order_id(sales_data, orders_, customers_) ==
    Arrangements(
        state_sums(
            pd_merge(Project(sales_data, {"order_id", "price"}),
                     [i \in 1..Len(customers_) |->
                         [order_id |-> customers_[i].customer_id,
                          customer_state |-> customers_[i].customer_state]],
                     {"order_id"}, {"customer_state"})),
        FALSE)

\* the results calculate_state_revenue may return (a set: ties)
calculate_state_revenue(sales_data, orders_, customers_) ==
    Arrangements(state_sums(state_merge(sales_data, orders_, customers_)),
                 FALSE)

\* reviews[reviews["order_id"].isin(sales_data["order_id"].unique())]
relevant_reviews(sales_data, reviews_) ==
    SelectSeq(reviews_,
              LAMBDA r : \E i \in 1..Len(sales_data) :
                             sales_data[i].order_id = r.order_id)

\* Series.value_counts(normalize=True).sort_index(): one entry per value
\* that occurs, its count over the number of values, ascending by value
value_counts_normalized(values) ==
    LET keys == SortedSeq({values[i] : i \in 1..Len(values)})
    IN  [i \in 1..Len(keys) |->
            [review_score |-> keys[i],
             proportion |->
                 Rat(Cardinality({j \in 1..Len(values) : values[j] = keys[i]}),
                     Len(values))]]

\* a plausible slip: the distribution of all reviews, whatever their order
distribution_of_all_reviews(sales_data, reviews_) ==
    value_counts_normalized(Column(reviews_, "review_score"))

calculate_review_score_distribution(sales_data, reviews_) ==
    value_counts_normalized(
        Column(relevant_reviews(sales_data, reviews_), "review_score"))

\* Series.mean() of the scores of the relevant reviews: NaN if there is none
calculate_average_review_score(sales_data, reviews_) ==
    LET scores == Column(relevant_reviews(sales_data, reviews_),
                         "review_score")
    IN  IF scores = <<>> THEN NaN ELSE Rat(SumSeq(scores), Len(scores))

PerOrderCols == {"order_id", "delivery_speed_days", "delivery_time",
                 "review_score"}

\* a plausible slip: the merged rows averaged as they are, one per item
per_item_rows(sales_data_with_speed, reviews_) ==
    Project(pd_merge(sales_data_with_speed,
                     Project(reviews_, {"order_id", "review_score"}),
                     {"order_id"}, {"review_score"}),
            PerOrderCols)

\* merged[[...]].drop_duplicates(); merge without on= joins on the columns
\* the two tables share, which is order_id
per_order_rows(sales_data_with_speed, reviews_) ==
    drop_duplicates(
        Project(pd_merge(sales_data_with_speed,
                         Project(reviews_, {"order_id", "review_score"}),
                         {"order_id"}, {"review_score"}),
                PerOrderCols))

\* the labels in the order groupby sorts them
DeliveryLabels == <<"1-3 days", "4-7 days", "8+ days">>

\* per_order.groupby("delivery_time")["review_score"].mean().reset_index()
calculate_delivery_review_correlation(sales_data_with_speed, reviews_) ==
    LET per_order == per_order_rows(sales_data_with_speed, reviews_)
        present == SelectSeq(DeliveryLabels,
                             LAMBDA l : \E i \in 1..Len(per_order) :
                                            per_order[i].delivery_time = l)
    IN  [i \in 1..Len(present) |->
            LET rows == SelectSeq(per_order,
                                  LAMBDA r : r.delivery_time = present[i])
            IN  [delivery_time |-> present[i],
                 review_score |-> Rat(SumSeq(Column(rows, "review_score")),
                                      Len(rows))]]

\* a plausible slip: a missing delivery speed averaged in as 0 days
average_delivery_time_zero_filled(sales_data_with_speed) ==
    IF sales_data_with_speed = <<>> THEN NaN
    ELSE Rat(SumSeq([i \in 1..Len(sales_data_with_speed) |->
                        sales_data_with_speed[i].delivery_speed_days.v]),
             Len(sales_data_with_speed))

calculate_average_delivery_time(sales_data_with_speed) ==
    series_mean(Column(sales_data_with_speed, "delivery_speed_days"))

-----------------------------------------------------------------------------
(* The session: load_data's pipeline, then the metrics.                    *)

NoMetrics == [computed |-> FALSE]

BuildSalesData ==
    /\ pc = "loaded"
    /\ sales' = build_sales_data(orders, order_items)
    /\ pc' = "built"
    /\ UNCHANGED <<orders, customers, order_items, products, reviews,
                   sales_del, metrics, call, heap, calls, view>>

FilterDelivered ==
    /\ pc = "built"
    /\ sales_del' = filter_delivered_orders(sales)
    /\ pc' = "filtered"
    /\ UNCHANGED <<orders, customers, order_items, products, reviews, sales,
                   metrics, call, heap, calls, view>>

AddDeliverySpeed ==
    /\ pc = "filtered"
    /\ sales_del' = add_delivery_speed(sales_del)
    /\ pc' = "speed"
    /\ UNCHANGED <<orders, customers, order_items, products, reviews, sales,
                   metrics, call, heap, calls, view>>

ApplyCategorize ==
    /\ pc = "speed"
    /\ sales_del' = apply_categorize(sales_del)
    /\ pc' = "categorized"
    /\ UNCHANGED <<orders, customers, order_items, products, reviews, sales,
                   metrics, call, heap, calls, view>>

ComputeMetrics ==
    /\ pc = "categorized"
    /\ \E by_category \in calculate_category_revenue(sales_del, products),
          by_state \in calculate_state_revenue(sales_del, orders, customers) :
          metrics' =
            [computed |-> TRUE,
             total_revenue |-> calculate_total_revenue(sales_del),
             monthly_revenue |-> calculate_monthly_revenue(sales_del),
             monthly_growth |-> calculate_monthly_growth(sales_del),
             average_order_value |-> calculate_average_order_value(sales_del),
             order_count |-> calculate_order_count(sales_del),
             category_revenue |-> by_category,
             state_revenue |-> by_state,
             review_score_distribution |->
                 calculate_review_score_distribution(sales_del, reviews),
             average_review_score |->
                 calculate_average_review_score(sales_del, reviews),
             delivery_review_correlation |->
                 calculate_delivery_review_correlation(sales_del, reviews),
             average_delivery_time |->
                 calculate_average_delivery_time(sales_del)]
    /\ pc' = "done"
    /\ UNCHANGED <<orders, customers, order_items, products, reviews, sales,
                   sales_del, call, heap, calls, view>>

Next ==
    \/ BuildSalesData
    \/ FilterDelivered
    \/ AddDeliverySpeed
    \/ ApplyCategorize
    \/ ComputeMetrics

-----------------------------------------------------------------------------
(* The loaded tables (load_all_datasets), drawn from bounded sets.  Only   *)
(* the columns the assembler and the engine read are kept.  A primary key  *)
(* (order_id in orders, product_id in products) is unique, and an order    *)
(* has at most one review, as the data model states.                       *)

\* purchase instants in January, February and March 2023, and in January
\* and February 2022
PurchaseInstants == <<10, 750, 1500, -8750, -8000>>

Jan == PurchaseInstants[1]

Feb == PurchaseInstants[2]

Mar == PurchaseInstants[3]

Jan22 == PurchaseInstants[4]

Feb22 == PurchaseInstants[5]

OrderRow(id, k) ==
    [order_id |-> id,
     customer_id |-> id,
     order_status |-> k.status,
     order_purchase_timestamp |-> Val(k.purchase),
     order_delivered_customer_date |->
         IF k.delay.na THEN NA ELSE Val(k.purchase + k.delay.v)]

\* every orders table over a subset of ids, each order of one of the kinds
\* (status, purchase instant, hours until delivery), in order of id
OrderTables(ids, kinds) ==
    UNION { { [i \in 1..Cardinality(S) |->
                  OrderRow(SortedSeq(S)[i], f[SortedSeq(S)[i]])] :
              f \in [S -> kinds] } : S \in SUBSET ids }

\* order_item_id: the sequence number of the item within its order
Numbered(items) ==
    [i \in 1..Len(items) |->
        [order_id |-> items[i].order_id,
         order_item_id |->
             Cardinality({j \in 1..i : items[j].order_id = items[i].order_id}),
         product_id |-> items[i].product_id,
         price |-> items[i].price]]

\* every order_items table of at most n rows
ItemTables(ids, pids, prices, n) ==
    UNION { { Numbered(t) :
              t \in [1..k -> [order_id : ids, product_id : pids,
                              price : prices]] } : k \in 0..n }

\* every catalog over a subset of product ids, in order of id; a category
\* name may be missing
ProductTables(pids, names) ==
    UNION { { [i \in 1..Cardinality(S) |->
                  [product_id |-> SortedSeq(S)[i],
                   product_category_name |-> f[SortedSeq(S)[i]]]] :
              f \in [S -> names] } : S \in SUBSET pids }

\* every reviews table with at most one review per order, in order of id
ReviewTables(ids, scores) ==
    UNION { { [i \in 1..Cardinality(S) |->
                  [order_id |-> SortedSeq(S)[i],
                   review_score |-> f[SortedSeq(S)[i]]]] :
              f \in [S -> scores] } : S \in SUBSET ids }

\* the order ids of the orders table, and an id no order carries
OrderIds == 1..MaxOrders

NoSuchOrder == MaxOrders + 1

\* the product ids of the catalog; the items name one more, which no
\* product carries
ProductIds == {1, 2}

ItemProductIds == ProductIds \cup {3}

Kind(status, purchase, delay) ==
    [status |-> status, purchase |-> purchase, delay |-> delay]

OneProduct == <<[product_id |-> 1, product_category_name |-> Val("toys")]>>

\* every customers table over a subset of customer ids, in order of id
CustomerTables(ids, states) ==
    UNION { { [i \in 1..Cardinality(S) |->
                  [customer_id |-> SortedSeq(S)[i],
                   customer_state |-> f[SortedSeq(S)[i]]]] :
              f \in [S -> states] } : S \in SUBSET ids }

\* one customer for each of the first four orders, all of one state
HomeCustomers == [i \in 1..4 |-> [customer_id |-> i, customer_state |-> "CA"]]

NoKpis == [computed |-> FALSE]

\* nothing is selected yet
NoSelection ==
    /\ sel_year = NA /\ sel_month = NA
    /\ sales_curr = <<>> /\ sales_comp = <<>>
    /\ kpis = NoKpis

Loaded ==
    /\ pc = "loaded"
    /\ sales = <<>> /\ sales_del = <<>> /\ metrics = NoMetrics
    /\ call = [fn |-> "none", args |-> <<>>, ret |-> <<>>]
    /\ heap = <<>> /\ calls = {}
    /\ customers = HomeCustomers
    /\ NoSelection

\* orders that differ in status and delivery; items that may name no order
InitAssemble ==
    /\ Loaded
    /\ orders \in OrderTables(OrderIds,
                     {Kind("canceled", Jan, NA), Kind("delivered", Jan, NA),
                      Kind("delivered", Jan, Val(-1)),
                      Kind("delivered", Jan, Val(95)),
                      Kind("delivered", Jan, Val(96)),
                      Kind("delivered", Jan, Val(200))})
    /\ order_items \in ItemTables(OrderIds \cup {NoSuchOrder}, {1}, {10},
                                  MaxItems)
    /\ products = OneProduct
    /\ reviews = <<>>

SpecAssemble == InitAssemble /\ [][Next]_vars

\* delivered orders of January, February, March and January again; items
\* that differ in order and price
InitRevenue ==
    /\ Loaded
    /\ products = OneProduct
    /\ reviews = <<>>
    /\ \/ /\ orders = <<OrderRow(1, Kind("delivered", Jan, Val(95))),
                        OrderRow(2, Kind("delivered", Feb, Val(95))),
                        OrderRow(3, Kind("delivered", Mar, Val(95))),
                        OrderRow(4, Kind("delivered", Jan, Val(95)))>>
          /\ order_items \in ItemTables(1..4, {1}, 0..MaxPrice, MaxItems)
       \/ \* two orders, of items priced 10 and 20, and 15
          /\ orders = <<OrderRow(1, Kind("delivered", Jan, Val(95))),
                        OrderRow(2, Kind("delivered", Jan, Val(95)))>>
          /\ order_items = Numbered(<<[order_id |-> 1, product_id |-> 1,
                                       price |-> 10],
                                      [order_id |-> 1, product_id |-> 1,
                                       price |-> 20],
                                      [order_id |-> 2, product_id |-> 1,
                                       price |-> 15]>>)
       \/ \* three months of revenue 100, 150 and 90
          /\ orders = <<OrderRow(1, Kind("delivered", Jan, Val(95))),
                        OrderRow(2, Kind("delivered", Feb, Val(95))),
                        OrderRow(3, Kind("delivered", Mar, Val(95)))>>
          /\ order_items = Numbered(<<[order_id |-> 1, product_id |-> 1,
                                       price |-> 100],
                                      [order_id |-> 2, product_id |-> 1,
                                       price |-> 150],
                                      [order_id |-> 3, product_id |-> 1,
                                       price |-> 90]>>)

SpecRevenue == InitRevenue /\ [][Next]_vars

\* catalogs that differ in which products they list and under which name
InitCategory ==
    /\ Loaded
    /\ orders = <<OrderRow(1, Kind("delivered", Jan, Val(95)))>>
    /\ order_items \in ItemTables({1}, ItemProductIds, 1..MaxPrice,
                                  MaxItems)
    /\ products \in ProductTables(ProductIds,
                                  {Val("bed_bath"), Val("toys"), NA})
    /\ reviews = <<>>

SpecCategory == InitCategory /\ [][Next]_vars

\* orders of one or several items, reviewed or not
InitReviews ==
    /\ Loaded
    /\ products = OneProduct
    /\ \/ /\ orders \in OrderTables(OrderIds,
                            {Kind("delivered", Jan, NA),
                             Kind("delivered", Jan, Val(95)),
                             Kind("delivered", Jan, Val(96))})
          /\ order_items \in ItemTables(OrderIds, {1}, {10}, MaxItems)
          /\ reviews \in ReviewTables(OrderIds, {1, 5})
       \/ \* four reviewed orders, of scores 5, 5, 4 and 3
          /\ orders = [i \in 1..4 |->
                          OrderRow(i, Kind("delivered", Jan, Val(95)))]
          /\ order_items = Numbered([i \in 1..4 |->
                              [order_id |-> i, product_id |-> 1,
                               price |-> 10]])
          /\ reviews = [i \in 1..4 |->
                           [order_id |-> i,
                            review_score |-> <<5, 5, 4, 3>>[i]]]

SpecReviews == InitReviews /\ [][Next]_vars

-----------------------------------------------------------------------------
(* The dashboard: the period selectors, the period filter, the KPI values  *)
(* and their trend badges.                                                 *)

\* growth=None, the default of kpi_card_html
None == [kind |-> "none", n |-> 0, d |-> 1]

\* format(x, ".2f") of a finite value: the number of hundredths nearest to
\* |x|, a tie going to the even one
hundredths(x) ==
    LET num == Abs(x.n) * 100
        q == num \div x.d
        r == num % x.d
    IN  IF 2 * r > x.d \/ (2 * r = x.d /\ q % 2 = 1) THEN q + 1 ELSE q

\* f"{abs(pct):.2f}%": the hundredths of |pct|, or inf / nan
percent_text(pct) ==
    IF pct.kind = "num" THEN <<"num", hundredths(pct)>> ELSE <<pct.kind>>

\* f"{pct:+.2f}%": the same with the sign in front
signed_percent_text(pct) ==
    <<IF pct.n < 0 THEN "-" ELSE "+">> \o percent_text(pct)

\* a plausible slip: only None is taken for "unavailable"
trend_tag_none_only(growth, css_class, inverted) ==
    IF growth = None THEN <<>>
    ELSE LET pct == FScale(growth, 100)
             positive == IF inverted THEN ~FNonNegative(pct)
                                     ELSE FNonNegative(pct)
         IN  <<css_class,
               IF positive THEN "#16a34a" ELSE "#dc2626",
               IF FNonNegative(pct) THEN "up" ELSE "down",
               percent_text(pct)>>

\* the HTML of the trend badge as its parts <<class, color, arrow, text>>;
\* the empty string is the empty sequence
trend_tag(growth, css_class, inverted) ==
    IF growth = None \/ IsNaN(growth) THEN <<>>
    ELSE LET pct == FScale(growth, 100)
             positive == IF inverted THEN ~FNonNegative(pct)
                                     ELSE FNonNegative(pct)
         IN  <<css_class,
               IF positive THEN "#16a34a" ELSE "#dc2626",
               IF FNonNegative(pct) THEN "up" ELSE "down",
               percent_text(pct)>>

\* sorted(sales_all["order_purchase_timestamp"].dt.year.unique())
available_years(sales_all) ==
    {sales_all[i].year.v : i \in {j \in 1..Len(sales_all) :
                                     ~sales_all[j].year.na}}

\* sales_all[mask]: the year mask, and the month mask when a month is
\* selected
period_rows(sales_all, year, month) ==
    SelectSeq(sales_all,
              LAMBDA r : /\ ~r.year.na /\ r.year.v = year
                         /\ month.na \/ (~r.month.na /\ r.month.v = month.v))

\* float(_monthly_rev.pct_change().mean()): the mean of the values that
\* are not NaN
RECURSIVE FSum(_)
FSum(s) == IF s = <<>> THEN Num(0) ELSE FAdd(Head(s), FSum(Tail(s)))

mom_mean(monthly_rev) ==
    LET changes == SelectSeq(Column(pct_change(monthly_rev), "price"),
                             LAMBDA x : ~IsNaN(x))
    IN  IF changes = <<>> THEN NaN
        ELSE FDiv(FSum(changes), Num(Len(changes)))

\* the month options the model selects from: "All", Jan and Feb
MonthOptions == {NA, Val(1), Val(2)}

\* the selectors are set and the two masks applied
ApplyFilters ==
    /\ pc = "categorized"
    /\ \E year \in available_years(sales_del), month \in MonthOptions :
          /\ sel_year' = Val(year)
          /\ sel_month' = month
          /\ sales_curr' = period_rows(sales_del, year, month)
          /\ sales_comp' = period_rows(sales_del, year - 1, month)
    /\ pc' = "selected"
    /\ UNCHANGED <<orders, customers, order_items, products, reviews, sales,
                   sales_del, metrics, call, heap, calls, kpis>>

ComputeKpis ==
    /\ pc = "selected"
    /\ LET rev_curr == Num(calculate_total_revenue(sales_curr))
           rev_comp == Num(calculate_total_revenue(sales_comp))
           rev_growth == calculate_revenue_growth(rev_curr, rev_comp)
           monthly_rev == calculate_monthly_revenue(sales_curr)
           aov_curr == calculate_average_order_value(sales_curr)
           aov_comp == calculate_average_order_value(sales_comp)
           aov_growth == calculate_revenue_growth(aov_curr, aov_comp)
           orders_curr == Num(calculate_order_count(sales_curr))
           orders_comp == Num(calculate_order_count(sales_comp))
           orders_growth == calculate_revenue_growth(orders_curr, orders_comp)
           avg_del_curr == calculate_average_delivery_time(sales_curr)
           avg_del_comp == calculate_average_delivery_time(sales_comp)
           del_growth == calculate_revenue_growth(avg_del_curr, avg_del_comp)
       IN  kpis' =
             [computed |-> TRUE,
              rev_curr |-> rev_curr, rev_comp |-> rev_comp,
              rev_growth |-> rev_growth,
              mom_display |->
                  IF Len(monthly_rev) > 1
                  THEN signed_percent_text(
                           FScale(mom_mean(monthly_rev), 100))
                  ELSE <<"N/A">>,
              aov_curr |-> aov_curr, aov_comp |-> aov_comp,
              aov_growth |-> aov_growth,
              orders_curr |-> orders_curr, orders_comp |-> orders_comp,
              orders_growth |-> orders_growth,
              avg_del_curr |-> avg_del_curr, avg_del_comp |-> avg_del_comp,
              del_growth |-> del_growth,
              avg_rev_score |->
                  calculate_average_review_score(sales_curr, reviews),
              rev_trend |-> trend_tag(rev_growth, "kpi-trend", FALSE),
              mom_trend |-> trend_tag(None, "kpi-trend", FALSE),
              aov_trend |-> trend_tag(aov_growth, "kpi-trend", FALSE),
              orders_trend |-> trend_tag(orders_growth, "kpi-trend", FALSE),
              del_trend |-> trend_tag(del_growth, "metric-trend", TRUE)]
    /\ pc' = "kpis"
    /\ UNCHANGED <<orders, customers, order_items, products, reviews, sales,
                   sales_del, metrics, call, heap, calls, sel_year, sel_month,
                   sales_curr, sales_comp>>

NextDashboard ==
    \/ BuildSalesData
    \/ FilterDelivered
    \/ AddDeliverySpeed
    \/ ApplyCategorize
    \/ ApplyFilters
    \/ ComputeKpis

\* orders of January and February 2023 and of January 2022, delivered
\* with or without a delivery date
InitDashboard ==
    /\ Loaded
    /\ orders \in OrderTables({1, 2},
                     {Kind("delivered", Jan, Val(95)),
                      Kind("delivered", Jan, NA),
                      Kind("delivered", Feb, Val(200)),
                      Kind("delivered", Jan22, Val(95)),
                      Kind("delivered", Jan22, NA)})
    /\ order_items \in ItemTables({1, 2}, {1}, {1, 2}, MaxItems)
    /\ products = OneProduct
    /\ reviews = <<>>

SpecDashboard == InitDashboard /\ [][NextDashboard]_vars

-----------------------------------------------------------------------------
(* The scalar functions, called on arguments drawn from bounded sets.      *)

Amounts == {Num(i) : i \in -MaxAmount..MaxAmount} \cup {NaN, Num(100), Num(110)}

DayCounts == {Val(i) : i \in -2..MaxDays}

NoCall == [fn |-> "none", args |-> <<>>, ret |-> <<>>]

InitScalar ==
    /\ pc = "idle"
    /\ orders = <<>> /\ order_items = <<>> /\ products = <<>> /\ reviews = <<>>
    /\ customers = <<>>
    /\ NoSelection
    /\ sales = <<>> /\ sales_del = <<>> /\ metrics = NoMetrics
    /\ call = NoCall
    /\ heap = <<>> /\ calls = {}

CallRevenueGrowth ==
    /\ pc = "idle"
    /\ \E c \in Amounts, p \in Amounts :
          call' = [fn |-> "calculate_revenue_growth", args |-> <<c, p>>,
                   ret |-> calculate_revenue_growth(c, p)]
    /\ pc' = "returned"
    /\ UNCHANGED <<orders, customers, order_items, products, reviews, sales,
                   sales_del, metrics, heap, calls, view>>

CallCategorize ==
    /\ pc = "idle"
    /\ \E d \in DayCounts :
          call' = [fn |-> "categorize_delivery_speed", args |-> <<d>>,
                   ret |-> categorize_delivery_speed(d)]
    /\ pc' = "returned"
    /\ UNCHANGED <<orders, customers, order_items, products, reviews, sales,
                   sales_del, metrics, heap, calls, view>>

Return ==
    /\ pc = "returned"
    /\ pc' = "idle"
    /\ call' = NoCall
    /\ UNCHANGED <<orders, customers, order_items, products, reviews, sales,
                   sales_del, metrics, heap, calls, view>>

NextScalar == CallRevenueGrowth \/ CallCategorize \/ Return

SpecScalar == InitScalar /\ [][NextScalar]_vars

-----------------------------------------------------------------------------
(* calculate_state_revenue, called on tables drawn from bounded sets: the  *)
(* records may name an order the orders table lacks, and an order a        *)
(* customer the customers table lacks.                                     *)

\* every table of at most n records, of the columns the function reads
RecordTables(ids, prices, n) ==
    UNION { [1..k -> [order_id : ids, price : prices]] : k \in 0..n }

\* every orders table over a subset of ids, in order of id, of the columns
\* the function reads
OrderLinks(ids, cids) ==
    UNION { { [i \in 1..Cardinality(S) |->
                  [order_id |-> SortedSeq(S)[i],
                   customer_id |-> f[SortedSeq(S)[i]]]] :
              f \in [S -> cids] } : S \in SUBSET ids }

CallStateRevenue ==
    /\ pc = "idle"
    /\ \E records \in RecordTables(1..3, {1, 2}, MaxItems),
          orders_ \in OrderLinks({1, 2}, {1, 2, 3}),
          customers_ \in CustomerTables({1, 2}, {"CA", "TX"}) :
          \E by_state \in calculate_state_revenue(records, orders_,
                                                  customers_) :
              call' = [fn |-> "calculate_state_revenue",
                       args |-> <<records, orders_, customers_>>,
                       ret |-> by_state]
    /\ pc' = "returned"
    /\ UNCHANGED <<orders, customers, order_items, products, reviews, sales,
                   sales_del, metrics, heap, calls, view>>

NextState == CallStateRevenue \/ Return

SpecState == InitScalar /\ [][NextState]_vars

-----------------------------------------------------------------------------
(* Object identity.  heap maps an object id to the rows of that table; a   *)
(* call of an assembler function takes the id of its argument and leaves   *)
(* its result on the heap.                                                 *)

\* a plausible slip: the argument itself is updated and handed back
in_place_result(hp, h, rows) ==
    [heap |-> [hp EXCEPT ![h] = rows], out |-> h]

\* sales_data[mask].copy() and sales_data.copy(): the result is a new
\* object with rows of its own
copy_result(hp, h, rows) ==
    [heap |-> Append(hp, rows), out |-> Len(hp) + 1]

InitAlias ==
    /\ pc = "session"
    /\ orders = <<OrderRow(1, Kind("delivered", Jan, Val(95))),
                  OrderRow(2, Kind("canceled", Feb, NA)),
                  OrderRow(3, Kind("delivered", Jan22, Val(95)))>>
    /\ order_items \in ItemTables({1, 2, 3}, {1}, {10}, 2)
    /\ products = <<>> /\ reviews = <<>> /\ customers = <<>>
    /\ NoSelection
    /\ sales = <<>> /\ sales_del = <<>> /\ metrics = NoMetrics
    /\ call = [fn |-> "none", args |-> <<>>, ret |-> <<>>]
    /\ heap = <<build_sales_data(orders, order_items)>>
    /\ calls = {}

\* the call fn(args) on object h returns: its arguments and the rows of
\* its result are noted as they are at the return
Returns(res, h, fn, args) ==
    /\ heap' = res.heap
    /\ calls' = calls \cup {<<h, res.out>>}
    /\ call' = [fn |-> fn, args |-> args, ret |-> res.heap[res.out]]
    /\ UNCHANGED <<pc, orders, customers, order_items, products, reviews,
                   sales, sales_del, metrics, view>>

\* the rows do not yet carry the column
Lacks(rows, col) == \A i \in Rows(rows) : col \notin DOMAIN rows[i]

CallFilterDelivered ==
    \E h \in DOMAIN heap :
        /\ Len(heap) < MaxObjects
        /\ Returns(copy_result(heap, h, filter_delivered_orders(heap[h])), h,
                   "filter_delivered_orders", <<heap[h]>>)

CallFilterByPeriod ==
    \E h \in DOMAIN heap, year \in {2022, 2023}, month \in {NA, Val(1)} :
        /\ Len(heap) < MaxObjects
        /\ Returns(copy_result(heap, h, filter_by_period(heap[h], year, month)),
                   h, "filter_by_period", <<heap[h], year, month>>)

CallAddDeliverySpeed ==
    \E h \in DOMAIN heap :
        /\ Len(heap) < MaxObjects
        /\ Lacks(heap[h], "delivery_speed_days")
        /\ Returns(copy_result(heap, h, add_delivery_speed(heap[h])), h,
                   "add_delivery_speed", <<heap[h]>>)

\* the caller assigns a derived column to a table a call returned: as
\* load_data does with sales_del["delivery_time"] where the table has a
\* delivery speed, and some other column where it has none
assign_derived_column(rows) ==
    IF Lacks(rows, "delivery_speed_days")
    THEN [i \in Rows(rows) |-> WithCol(rows[i], "derived", TRUE)]
    ELSE apply_categorize(rows)

MutateReturned ==
    \E c \in calls :
        /\ heap' = [heap EXCEPT ![c[2]] = assign_derived_column(heap[c[2]])]
        /\ UNCHANGED <<pc, orders, customers, order_items, products, reviews,
                   sales, sales_del, metrics, call, calls, view>>

NextAlias ==
    \/ CallFilterDelivered
    \/ CallFilterByPeriod
    \/ CallAddDeliverySpeed
    \/ MutateReturned

SpecAlias == InitAlias /\ [][NextAlias]_vars

-----------------------------------------------------------------------------
(* What the claims speak of, stated over sets of rows.                     *)

\* the sum of f[x] over the finite set S
RECURSIVE SumFn(_, _)
SumFn(S, f) ==
    IF S = {} THEN 0
    ELSE LET x == CHOOSE y \in S : TRUE
         IN  f[x] + SumFn(S \ {x}, f)

SumOver(S, F(_)) == SumFn(S, [x \in S |-> F(x)])

\* the price of row i of the delivered sales table
PriceOf(i) == sales_del[i].price

\* value is the quotient num / den (den # 0)
IsQuotient(value, num, den) ==
    value.kind = "num" /\ value.n * den = num * value.d

(* C1: on a non-empty set of sales records calculate_average_order_value   *)
(* is the mean, over the distinct order ids, of each order's summed item   *)
(* prices; orders of items [10, 20] and [15] give 22.5.                    *)
C1_AverageOrderValuePerOrder ==
    (pc = "done" /\ sales_del # <<>>) =>
        LET ids == {sales_del[i].order_id : i \in Rows(sales_del)}
            OrderTotal(o) ==
                SumOver({i \in Rows(sales_del) : sales_del[i].order_id = o},
                        PriceOf)
        IN  /\ IsQuotient(metrics.average_order_value,
                          SumOver(ids, OrderTotal), Cardinality(ids))
            /\ (Column(sales_del, "order_id") = <<1, 1, 2>>
                  /\ Column(sales_del, "price") = <<10, 20, 15>>)
               => metrics.average_order_value = Rat(45, 2)

C1_Witness ==
    /\ pc = "done"
    /\ Column(sales_del, "order_id") = <<1, 1, 2>>
    /\ Column(sales_del, "price") = <<10, 20, 15>>
    /\ metrics.average_order_value = Rat(45, 2)

(* C2: calculate_revenue_growth(current, previous) is NaN for every        *)
(* current when previous = 0 (no error, not 0); for every previous # 0 it  *)
(* is (current - previous) / previous, and 110 against 100 gives 0.10.     *)
C2_GrowthUndefinedAtZero ==
    call.fn = "calculate_revenue_growth" =>
        LET c == call.args[1]
            p == call.args[2]
            r == call.ret
        IN  /\ (p.kind = "num" /\ p.n = 0) => IsNaN(r)
            /\ (p.kind = "num" /\ p.n # 0 /\ c.kind = "num") =>
                  \* r = (c - p) / p, stated as r * p = c - p
                  /\ r.kind = "num"
                  /\ r.n * p.n = (c.n - p.n) * r.d
            /\ (c = Num(110) /\ p = Num(100)) => r = Rat(1, 10)

C2_Witness ==
    /\ call.fn = "calculate_revenue_growth"
    /\ call.args[2] = Num(0)
    /\ call.args[1] = Num(5)
    /\ IsNaN(call.ret)

\* the score of the review of order o
ScoreOf(o) ==
    reviews[CHOOSE j \in Rows(reviews) : reviews[j].order_id = o].review_score

(* C3: calculate_delivery_review_correlation counts every order once       *)
(* toward the average review score of its delivery category, however many  *)
(* sales records (items) share its order id.                               *)
C3_OneRowPerOrder ==
    pc = "done" =>
        LET corr == metrics.delivery_review_correlation
            OrdersIn(l) ==
                {sales_del[i].order_id :
                   i \in {k \in Rows(sales_del) :
                            /\ sales_del[k].delivery_time = l
                            /\ \E j \in Rows(reviews) :
                                  reviews[j].order_id = sales_del[k].order_id}}
        IN  \A l \in {"1-3 days", "4-7 days", "8+ days"} :
                LET at == {k \in Rows(corr) : corr[k].delivery_time = l}
                IN  IF OrdersIn(l) = {}
                    THEN at = {}
                    ELSE /\ Cardinality(at) = 1
                         /\ \A k \in at :
                               IsQuotient(corr[k].review_score,
                                          SumOver(OrdersIn(l), ScoreOf),
                                          Cardinality(OrdersIn(l)))

C3_Witness ==
    /\ pc = "done"
    /\ Column(sales_del, "order_id") = <<1, 1, 2>>
    /\ Column(sales_del, "delivery_time")
         = <<"1-3 days", "1-3 days", "1-3 days">>
    /\ reviews = <<[order_id |-> 1, review_score |-> 1],
                   [order_id |-> 2, review_score |-> 5]>>
    /\ metrics.delivery_review_correlation
         = <<[delivery_time |-> "1-3 days", review_score |-> Num(3)]>>

\* the catalog lists product pid under the category name c
Listed(pid, c) ==
    \E j \in Rows(products) :
        /\ products[j].product_id = pid
        /\ products[j].product_category_name = Val(c)

(* C4: calculate_category_revenue gives each category the summed prices    *)
(* of the records whose product the catalog lists under it, in             *)
(* non-increasing order of revenue; a record whose product is not in the   *)
(* catalog counts toward no category.                                      *)
C4_CategoryRevenue ==
    pc = "done" =>
        LET cr == metrics.category_revenue
            names == {c \in {"bed_bath", "toys"} :
                        \E i \in Rows(sales_del) :
                            Listed(sales_del[i].product_id, c)}
            Rev(c) == SumOver({i \in Rows(sales_del) :
                                  Listed(sales_del[i].product_id, c)}, PriceOf)
        IN  /\ Len(cr) = Cardinality(names)
            /\ {cr[i].product_category_name : i \in Rows(cr)} = names
            /\ \A i \in Rows(cr) :
                  cr[i].price = Rev(cr[i].product_category_name)
            /\ \A i \in 1..(Len(cr) - 1) : cr[i].price >= cr[i + 1].price
            /\ SumSeq(Column(cr, "price"))
                 = SumOver({i \in Rows(sales_del) :
                               \E c \in names :
                                   Listed(sales_del[i].product_id, c)},
                           PriceOf)

C4_Witness ==
    /\ pc = "done"
    /\ Len(metrics.category_revenue) = 2
    /\ metrics.category_revenue[1].price > metrics.category_revenue[2].price
    /\ metrics.category_revenue[1].product_category_name = "toys"
    /\ \E i \in Rows(sales_del) :
          \A j \in Rows(products) :
              products[j].product_id # sales_del[i].product_id

(* C5: build_sales_data inner-joins the items to the orders on order_id:   *)
(* an item without an order is dropped, an order without items adds        *)
(* nothing, the result has at most as many rows as there are items, and    *)
(* as many when every item names an order.                                 *)
C5_InnerJoin ==
    pc # "loaded" =>
        LET ids == {orders[j].order_id : j \in Rows(orders)}
            matched == {i \in Rows(order_items) :
                           order_items[i].order_id \in ids}
        IN  /\ Len(sales) <= Len(order_items)
            /\ Len(sales) = Cardinality(matched)
            /\ (matched = Rows(order_items))
                  => Len(sales) = Len(order_items)
            /\ \A k \in Rows(sales) :
                  /\ sales[k].order_id \in ids
                  /\ \E i \in matched :
                        \A c \in ItemCols : sales[k][c] = order_items[i][c]
            /\ \A i \in matched :
                  \E k \in Rows(sales), j \in Rows(orders) :
                      /\ \A c \in ItemCols : sales[k][c] = order_items[i][c]
                      /\ \A c \in OrderCols : sales[k][c] = orders[j][c]

C5_Witness ==
    /\ pc = "built"
    /\ Len(sales) = 2
    /\ Len(order_items) = 3
    /\ \E i \in Rows(order_items) :
          \A j \in Rows(orders) : orders[j].order_id # order_items[i].order_id
    /\ \E j \in Rows(orders) :
          \A i \in Rows(order_items) :
              orders[j].order_id # order_items[i].order_id

(* C6: the calls of filter_delivered_orders, filter_by_period and          *)
(* add_delivery_speed leave every table as it was, their result is never   *)
(* their argument, and assigning a column to a returned table leaves the   *)
(* argument of the call that returned it unchanged.                        *)
C6_InputsUnchanged ==
    [][/\ (calls' # calls) =>
              \A h \in DOMAIN heap : heap'[h] = heap[h]
       /\ \A c \in calls' : c[1] # c[2]
       /\ (calls' = calls) =>
              \A c \in calls :
                  heap'[c[2]] # heap[c[2]] => heap'[c[1]] = heap[c[1]]]_vars

C6_Witness ==
    \E c \in calls :
        /\ heap[c[1]] # <<>>
        /\ Lacks(heap[c[1]], "delivery_time")
        /\ heap[c[2]] # <<>>
        /\ ~Lacks(heap[c[2]], "delivery_time")
        /\ \E d \in calls :
              /\ d[2] = c[1]
              /\ Len(heap[d[2]]) < Len(heap[d[1]])
              /\ ~Lacks(heap[d[2]], "derived")

\* the delivered sales table carries delivery_speed_days
HasSpeed == pc \in {"speed", "categorized", "done"}

(* C7: add_delivery_speed gives a record with a delivery timestamp the     *)
(* whole number of days floor(delivery - purchase) and a record without    *)
(* one a missing value, never zero.                                        *)
C7_DeliverySpeed ==
    HasSpeed =>
        \A i \in Rows(sales_del) :
            LET r == sales_del[i]
                hours == r.order_delivered_customer_date.v
                           - r.order_purchase_timestamp.v
            IN  IF r.order_delivered_customer_date.na
                THEN r.delivery_speed_days.na
                ELSE /\ ~r.delivery_speed_days.na
                     /\ 24 * r.delivery_speed_days.v <= hours
                     /\ hours < 24 * (r.delivery_speed_days.v + 1)

C7_Witness ==
    /\ pc = "speed"
    /\ \E i \in Rows(sales_del) :
          /\ sales_del[i].order_delivered_customer_date.na
          /\ sales_del[i].delivery_speed_days = NA
    /\ \E i \in Rows(sales_del) :
          /\ sales_del[i].order_delivered_customer_date = Val(Jan + 95)
          /\ sales_del[i].delivery_speed_days = Val(3)

(* C8: calculate_average_delivery_time is the mean of delivery_speed_days  *)
(* over the records whose value is defined; a missing value is neither     *)
(* counted as 0 nor makes the average missing.                             *)
C8_AverageDeliveryTime ==
    pc = "done" =>
        LET defined == {i \in Rows(sales_del) :
                           ~sales_del[i].delivery_speed_days.na}
            DaysOf(i) == sales_del[i].delivery_speed_days.v
        IN  defined # {} =>
                IsQuotient(metrics.average_delivery_time,
                           SumOver(defined, DaysOf), Cardinality(defined))

C8_Witness ==
    /\ pc = "done"
    /\ \E i \in Rows(sales_del) : sales_del[i].delivery_speed_days.na
    /\ \E i \in Rows(sales_del) : sales_del[i].delivery_speed_days = Val(8)
    /\ metrics.average_delivery_time = Num(8)

(* C9: categorize_delivery_speed gives every whole-day count exactly one   *)
(* label: up to 3 "1-3 days", 4 to 7 "4-7 days", 8 and more "8+ days".     *)
C9_CategoryBoundaries ==
    call.fn = "categorize_delivery_speed" =>
        LET days == call.args[1].v
            label == call.ret
        IN  /\ label \in {"1-3 days", "4-7 days", "8+ days"}
            /\ (label = "1-3 days") <=> (days <= 3)
            /\ (label = "4-7 days") <=> (4 <= days /\ days <= 7)
            /\ (label = "8+ days") <=> (days >= 8)

C9_Witness ==
    /\ call.fn = "categorize_delivery_speed"
    /\ call.args[1] = Val(7)
    /\ call.ret = "4-7 days"

(* C10: calculate_monthly_growth lists the months present in ascending     *)
(* order, NaN for the first and (revenue - previous revenue) / previous    *)
(* revenue for every later one; [100, 150, 90] gives [NaN, 0.5, -0.4].     *)
C10_MonthlyGrowth ==
    pc = "done" =>
        LET g == metrics.monthly_growth
            months == {sales_del[i].month.v : i \in Rows(sales_del)}
            Rev(m) == SumOver({i \in Rows(sales_del) :
                                  sales_del[i].month.v = m}, PriceOf)
        IN  /\ Len(g) = Cardinality(months)
            /\ {g[i].month : i \in Rows(g)} = months
            /\ \A i \in 1..(Len(g) - 1) : g[i].month < g[i + 1].month
            /\ Len(g) >= 1 => IsNaN(g[1].price)
            /\ \A i \in 2..Len(g) :
                  LET cur == Rev(g[i].month)
                      prev == Rev(g[i - 1].month)
                  IN  IF prev # 0
                      THEN IsQuotient(g[i].price, cur - prev, prev)
                      ELSE \* the float quotient by zero
                           g[i].price = FDiv(Num(cur - prev), Num(0))
            /\ ([i \in Rows(metrics.monthly_revenue) |->
                    metrics.monthly_revenue[i].price] = <<100, 150, 90>>)
               => [i \in Rows(g) |-> g[i].price]
                    = <<NaN, Rat(1, 2), Rat(-2, 5)>>

C10_Witness ==
    /\ pc = "done"
    /\ metrics.monthly_revenue = <<[month |-> 1, price |-> 100],
                                   [month |-> 2, price |-> 150],
                                   [month |-> 3, price |-> 90]>>
    /\ metrics.monthly_growth = <<[month |-> 1, price |-> NaN],
                                  [month |-> 2, price |-> Rat(1, 2)],
                                  [month |-> 3, price |-> Rat(-2, 5)]>>

\* the sum of a sequence of rationals
RECURSIVE RatSum(_)
RatSum(s) ==
    IF s = <<>> THEN Num(0)
    ELSE LET rest == RatSum(Tail(s))
         IN  Rat(Head(s).n * rest.d + rest.n * Head(s).d, Head(s).d * rest.d)

(* C11: calculate_review_score_distribution keeps the reviews whose order  *)
(* id occurs in the records and lists, ascending by score, every score     *)
(* that occurs among them with its count over their number; a score that   *)
(* does not occur is left out, and the proportions sum to 1 (there being   *)
(* at least one such review); scores [5, 5, 4, 3] give                     *)
(* {3: 0.25, 4: 0.25, 5: 0.5}.                                             *)
C11_ReviewScoreDistribution ==
    pc = "done" =>
        LET dist == metrics.review_score_distribution
            rel == {j \in Rows(reviews) :
                       \E i \in Rows(sales_del) :
                           sales_del[i].order_id = reviews[j].order_id}
        IN  /\ {dist[i].review_score : i \in Rows(dist)}
                 = {reviews[j].review_score : j \in rel}
            /\ \A i \in 1..(Len(dist) - 1) :
                  dist[i].review_score < dist[i + 1].review_score
            /\ \A i \in Rows(dist) :
                  IsQuotient(dist[i].proportion,
                             Cardinality({j \in rel :
                                 reviews[j].review_score
                                   = dist[i].review_score}),
                             Cardinality(rel))
            /\ rel # {} => RatSum(Column(dist, "proportion")) = Num(1)
            /\ rel = {} => dist = <<>>
            /\ (rel = Rows(reviews)
                  /\ Column(reviews, "review_score") = <<5, 5, 4, 3>>)
               => dist = <<[review_score |-> 3, proportion |-> Rat(1, 4)],
                           [review_score |-> 4, proportion |-> Rat(1, 4)],
                           [review_score |-> 5, proportion |-> Rat(1, 2)]>>

C11_Witness ==
    /\ pc = "done"
    /\ \E j \in Rows(reviews) :
          \A i \in Rows(sales_del) :
              sales_del[i].order_id # reviews[j].order_id
    /\ metrics.review_score_distribution
         = <<[review_score |-> 5, proportion |-> Num(1)]>>

(* C12: on an empty set of sales records every metric is a well-formed     *)
(* empty result: 0 for total revenue, order count, average order value,    *)
(* average review score and average delivery time, and an empty mapping    *)
(* or table for the grouped metrics.                                       *)
C12_EmptyInput ==
    (pc = "done" /\ sales_del = <<>>) =>
        /\ metrics.total_revenue = 0
        /\ metrics.order_count = 0
        /\ metrics.average_order_value = Num(0)
        /\ metrics.average_review_score = Num(0)
        /\ metrics.average_delivery_time = Num(0)
        /\ metrics.monthly_revenue = <<>>
        /\ metrics.monthly_growth = <<>>
        /\ metrics.category_revenue = <<>>
        /\ metrics.state_revenue = <<>>
        /\ metrics.review_score_distribution = <<>>
        /\ metrics.delivery_review_correlation = <<>>

(* C13: a growth rate over a previous value of zero is the undefined      *)
(* number: in calculate_monthly_growth a month whose preceding present     *)
(* month has revenue 0 gets NaN.                                           *)
C13_ZeroPreviousUndefined ==
    pc = "done" =>
        \A i \in 2..Len(metrics.monthly_growth) :
            metrics.monthly_revenue[i - 1].price = 0
                => IsNaN(metrics.monthly_growth[i].price)

(* C14: a product whose category name is missing does not vanish from    *)
(* the category aggregates: the result of calculate_category_revenue       *)
(* accounts for the price of every record whose product is in the          *)
(* catalog, named or not.                                                  *)
C14_MissingCategoryKept ==
    pc = "done" =>
        SumSeq(Column(metrics.category_revenue, "price"))
          = SumOver({i \in Rows(sales_del) :
                        \E j \in Rows(products) :
                            products[j].product_id = sales_del[i].product_id},
                    PriceOf)

(* C15: filter_by_period(records, year, month) returns, in their order,   *)
(* exactly the records whose year is year when month is absent, and        *)
(* exactly those whose year is year and whose month is month when month    *)
(* is given.                                                               *)
C15_FilterByPeriod ==
    call.fn = "filter_by_period" =>
        LET records == call.args[1]
            year == call.args[2]
            month == call.args[3]
            kept == {i \in Rows(records) :
                        /\ records[i].year = Val(year)
                        /\ month.na \/ records[i].month = month}
        IN  /\ Len(call.ret) = Cardinality(kept)
            /\ \A k \in Rows(call.ret) :
                  call.ret[k] = records[SortedSeq(kept)[k]]

C15_Witness ==
    /\ call.fn = "filter_by_period"
    /\ call.args[2] = 2023 /\ call.args[3] = Val(1)
    /\ Column(call.args[1], "year") = <<Val(2023), Val(2022)>>
    /\ Column(call.args[1], "month") = <<Val(1), Val(1)>>
    /\ Len(call.ret) = 1
    /\ call.ret[1].order_id = 1

(* C16: calculate_state_revenue returns one row per state, its revenue    *)
(* the summed prices of the records whose order_id is that of an order     *)
(* whose customer_id is that of a customer of the state; a record without  *)
(* such an order or customer counts toward no state, and the rows are in   *)
(* non-increasing order of revenue.                                        *)
C16_StateRevenue ==
    call.fn = "calculate_state_revenue" =>
        LET records == call.args[1]
            orders_ == call.args[2]
            customers_ == call.args[3]
            sr == call.ret
            InState(i, s) ==
                \E j \in Rows(orders_), k \in Rows(customers_) :
                    /\ orders_[j].order_id = records[i].order_id
                    /\ customers_[k].customer_id = orders_[j].customer_id
                    /\ customers_[k].customer_state = s
            Price(i) == records[i].price
            states == {s \in {"CA", "TX"} :
                         \E i \in Rows(records) : InState(i, s)}
            Rev(s) == SumOver({i \in Rows(records) : InState(i, s)}, Price)
        IN  /\ Len(sr) = Cardinality(states)
            /\ {sr[i].customer_state : i \in Rows(sr)} = states
            /\ \A i \in Rows(sr) : sr[i].price = Rev(sr[i].customer_state)
            /\ \A i \in 1..(Len(sr) - 1) : sr[i].price >= sr[i + 1].price

C16_Witness ==
    /\ call.fn = "calculate_state_revenue"
    /\ call.args[1] = <<[order_id |-> 1, price |-> 1],
                        [order_id |-> 2, price |-> 2],
                        [order_id |-> 3, price |-> 2]>>
    /\ call.args[2] = <<[order_id |-> 1, customer_id |-> 2],
                        [order_id |-> 2, customer_id |-> 1]>>
    /\ call.ret = <<[customer_state |-> "TX", price |-> 2],
                    [customer_state |-> "CA", price |-> 1]>>

(* C17: in the dashboard pipeline a record with a missing delivery speed  *)
(* keeps a missing delivery category (none of the three labels) and its    *)
(* order is counted in no category's average review score.                 *)
C17_MissingSpeedUncategorized ==
    /\ pc \in {"categorized", "done"} =>
          \A i \in Rows(sales_del) :
              sales_del[i].delivery_speed_days.na
                  => sales_del[i].delivery_time
                       \notin {"1-3 days", "4-7 days", "8+ days"}
    /\ pc = "done" =>
          LET corr == metrics.delivery_review_correlation
              Counted(l) ==
                  {sales_del[i].order_id :
                     i \in {k \in Rows(sales_del) :
                              /\ ~sales_del[k].delivery_speed_days.na
                              /\ sales_del[k].delivery_time = l
                              /\ \E j \in Rows(reviews) :
                                    reviews[j].order_id
                                      = sales_del[k].order_id}}
          IN  \A l \in {"1-3 days", "4-7 days", "8+ days"} :
                  LET at == {k \in Rows(corr) : corr[k].delivery_time = l}
                  IN  IF Counted(l) = {}
                      THEN at = {}
                      ELSE /\ Cardinality(at) = 1
                           /\ \A k \in at :
                                 IsQuotient(corr[k].review_score,
                                            SumOver(Counted(l), ScoreOf),
                                            Cardinality(Counted(l)))

\* the four growth values of the dashboard and their badges
Growths ==
    <<kpis.rev_growth, kpis.aov_growth, kpis.orders_growth, kpis.del_growth>>

Badges ==
    <<kpis.rev_trend, kpis.aov_trend, kpis.orders_trend, kpis.del_trend>>

(* C18: whenever the comparison period (the same period a year earlier)    *)
(* has no sales records, the growth of total revenue, average order        *)
(* value, order count and average delivery time is NaN and trend_tag       *)
(* renders the empty string for each; a badge is rendered only for a       *)
(* growth that is not NaN.                                                 *)
C18_NoBadgeWithoutComparison ==
    pc = "kpis" =>
        /\ sales_comp = <<>> =>
              \A g \in 1..4 : IsNaN(Growths[g]) /\ Badges[g] = <<>>
        /\ \A g \in 1..4 : Badges[g] # <<>> => ~IsNaN(Growths[g])

C18_Witness ==
    /\ pc = "kpis"
    /\ sales_curr # <<>>
    /\ sales_comp = <<>>
    /\ kpis.rev_curr = Num(3)
    /\ kpis.avg_del_curr = Num(3)
    /\ \A g \in 1..4 : IsNaN(Growths[g]) /\ Badges[g] = <<>>

(* C19: the aggregations conserve revenue: the values of                 *)
(* calculate_monthly_revenue add up to calculate_total_revenue, and on a   *)
(* non-empty set of records calculate_average_order_value times            *)
(* calculate_order_count is calculate_total_revenue.                       *)
C19_RevenueConserved ==
    pc = "done" =>
        /\ SumSeq(Column(metrics.monthly_revenue, "price"))
             = metrics.total_revenue
        /\ sales_del # <<>> =>
              FScale(metrics.average_order_value, metrics.order_count)
                = Num(metrics.total_revenue)

C19_Witness ==
    /\ pc = "done"
    /\ Len(sales_del) = 3
    /\ Len(metrics.monthly_revenue) = 2
    /\ metrics.order_count = 2
    /\ metrics.average_order_value = Rat(5, 2)
    /\ metrics.total_revenue = 5

=============================================================================
